---------------------------- MODULE Spec2Model ----------------------------
(***************************************************************************)
(* Background price poller with pluggable exchange backends                *)
(* (src/exchange_api.py).                                                  *)
(*                                                                         *)
(* A symbol is a sequence of one-character strings, so that the slicing    *)
(* and the separator test of the symbol translator are computed, not       *)
(* assumed.  A price table (a Python dict) is a function from a finite set *)
(* of symbols to prices.  The exchange SDK (ccxt) is the environment: a    *)
(* venue with a fixed listing, whose calls may fail in any pattern.        *)
(***************************************************************************)
EXTENDS Integers, Sequences, FiniteSets, TLC

(***************************************************************************)
(* Bounds of the model.                                                    *)
(***************************************************************************)
NumCallers == 2
MaxThreads == 2
MaxTime == 2
MaxSymbols == 2

(***************************************************************************)
(* Symbols.                                                                *)
(***************************************************************************)
BTCUSDT == <<"B", "T", "C", "U", "S", "D", "T">>
ETHUSDT == <<"E", "T", "H", "U", "S", "D", "T">>
ETHBTC == <<"E", "T", "H", "B", "T", "C">>
NOPEUSDT == <<"N", "O", "P", "E", "U", "S", "D", "T">>
BTC_USDT == <<"B", "T", "C", "/", "U", "S", "D", "T">>
ETH_USDT == <<"E", "T", "H", "/", "U", "S", "D", "T">>
ETH_BTC == <<"E", "T", "H", "/", "B", "T", "C">>

\* A variant of the map with an alias: two keys with the same native symbol.
symbol_map_items_Alias ==
    << <<BTCUSDT, BTC_USDT>>,
       <<ETHUSDT, ETH_USDT>>,
       << <<"X", "B", "T", "U", "S", "D", "T">>, BTC_USDT >> >>

\* OKCoinAPI.symbol_map, in the order of the dict literal.
symbol_map_items ==
    << <<BTCUSDT, BTC_USDT>>,
       <<ETHUSDT, ETH_USDT>>,
       << <<"L", "T", "C", "U", "S", "D", "T">>, <<"L", "T", "C", "/", "U", "S", "D", "T">> >>,
       << <<"X", "R", "P", "U", "S", "D", "T">>, <<"X", "R", "P", "/", "U", "S", "D", "T">> >>,
       << <<"E", "T", "C", "U", "S", "D", "T">>, <<"E", "T", "C", "/", "U", "S", "D", "T">> >>,
       << <<"B", "C", "H", "U", "S", "D", "T">>, <<"B", "C", "H", "/", "U", "S", "D", "T">> >>,
       << <<"E", "O", "S", "U", "S", "D", "T">>, <<"E", "O", "S", "/", "U", "S", "D", "T">> >>,
       << <<"B", "S", "V", "U", "S", "D", "T">>, <<"B", "S", "V", "/", "U", "S", "D", "T">> >>,
       << <<"T", "R", "X", "U", "S", "D", "T">>, <<"T", "R", "X", "/", "U", "S", "D", "T">> >>,
       << <<"A", "D", "A", "U", "S", "D", "T">>, <<"A", "D", "A", "/", "U", "S", "D", "T">> >>,
       << <<"D", "O", "G", "E", "U", "S", "D", "T">>, <<"D", "O", "G", "E", "/", "U", "S", "D", "T">> >>,
       << <<"S", "O", "L", "U", "S", "D", "T">>, <<"S", "O", "L", "/", "U", "S", "D", "T">> >>,
       << <<"D", "O", "T", "U", "S", "D", "T">>, <<"D", "O", "T", "/", "U", "S", "D", "T">> >>,
       << <<"M", "A", "T", "I", "C", "U", "S", "D", "T">>, <<"M", "A", "T", "I", "C", "/", "U", "S", "D", "T">> >>,
       << <<"B", "N", "B", "U", "S", "D", "T">>, <<"B", "N", "B", "/", "U", "S", "D", "T">> >> >>

\* A variant of the fallback list that holds a symbol outside the map.
symbol_map_keys_Extended == <<BTCUSDT, ETHUSDT, ETHBTC>>

\* list(self.symbol_map.keys())
symbol_map_keys == [i \in 1..Len(symbol_map_items) |-> symbol_map_items[i][1]]

\* dict.get(key, default) on a dict literal: the last item with that key wins.
RECURSIVE DictGet(_, _, _, _, _, _)
DictGet(items, from, to, i, key, default) ==
    IF i = 0 THEN default
    ELSE IF items[i][from] = key THEN items[i][to]
    ELSE DictGet(items, from, to, i - 1, key, default)

HasSlash(symbol) == \E i \in 1..Len(symbol) : symbol[i] = "/"

\* symbol[:-4] and symbol[-4:] of Python, also for symbols shorter than 4.
Cut(symbol) == IF Len(symbol) > 4 THEN Len(symbol) - 4 ELSE 0

\* f"{symbol[:-4]}/{symbol[-4:]}"
SplitQuote(symbol) ==
    SubSeq(symbol, 1, Cut(symbol)) \o <<"/">>
    \o SubSeq(symbol, Cut(symbol) + 1, Len(symbol))

convert_symbol(symbol) ==
    IF HasSlash(symbol) THEN symbol
    ELSE DictGet(symbol_map_items, 1, 2, Len(symbol_map_items), symbol, SplitQuote(symbol))

\* A variant of line 179 whose default is the symbol as it came.
StripSlash_Kept(symbol) == symbol

\* symbol.replace('/', '')
RECURSIVE StripSlash(_)
StripSlash(symbol) ==
    IF symbol = <<>> THEN <<>>
    ELSE IF Head(symbol) = "/" THEN StripSlash(Tail(symbol))
    ELSE <<Head(symbol)>> \o StripSlash(Tail(symbol))

reverse_convert_symbol(symbol) ==
    IF ~HasSlash(symbol) THEN symbol
    ELSE DictGet(symbol_map_items, 2, 1, Len(symbol_map_items), symbol, StripSlash(symbol))

(***************************************************************************)
(* Price tables.                                                           *)
(***************************************************************************)
EmptyTable == [s \in {} |-> 0]

Put(table, key, value) ==
    [s \in DOMAIN table \cup {key} |-> IF s = key THEN value ELSE table[s]]

(***************************************************************************)
(* The venue behind the SDK handle self.exchange.  Markets are the unified *)
(* symbols the venue lists; a call names a market by its unified symbol    *)
(* or, on Binance, by its market id (the symbol without separator).        *)
(***************************************************************************)
Backends == {"binance", "okcoin"}

Markets == {BTC_USDT, ETH_USDT, ETH_BTC}

Last(market) ==
    IF market = BTC_USDT THEN 65000 ELSE IF market = ETH_USDT THEN 3500 ELSE 5

Resolve(backend, arg) ==
    IF arg \in Markets THEN {arg}
    ELSE IF backend = "binance" THEN {m \in Markets : StripSlash(m) = arg}
    ELSE {}

\* One invocation's pattern of remote failures.
Envs ==
    [bulkFails : BOOLEAN, bulkEmpty : BOOLEAN, marketsFail : BOOLEAN,
     batchFails : BOOLEAN, singleFails : SUBSET Markets]

\* self.exchange.fetch_ticker(arg): raises for an unlisted symbol or a failed call.
TickerRaises(backend, env, arg) ==
    \/ Resolve(backend, arg) = {}
    \/ Resolve(backend, arg) \cap env.singleFails # {}

TickerLast(backend, arg) == Last(CHOOSE m \in Resolve(backend, arg) : TRUE)

\* self.exchange.fetch_tickers(): every listed market, keyed by unified symbol.
AllTickers == [m \in Markets |-> Last(m)]

\* What self.exchange.fetch_tickers() answered in this invocation: the tickers
\* of the venue, or no ticker at all.
BulkAnswer(env, tickers) == IF env.bulkEmpty THEN EmptyTable ELSE tickers


(***************************************************************************)
(* _fetch_prices.  A block of code evaluates to a record: exc (an          *)
(* exception is leaving the block), result (the local dict) and log (the   *)
(* remote calls issued so far, each <<kind, argument, succeeded>>).        *)
(***************************************************************************)
Block(exc, result, log) == [exc |-> exc, result |-> result, log |-> log]

\* A variant with no except clause: the exception leaves _fetch_prices.
Caught_Propagates(b) == [raised |-> TRUE, table |-> b.result, log |-> b.log]

\* An except clause that prints and falls through to `return result`.
Caught(b) == [raised |-> FALSE, table |-> b.result, log |-> b.log]

\* `return result` / `return {...}` with no exception pending.
Returned(b) == [raised |-> FALSE, table |-> b.result, log |-> b.log]

\* BinanceAPI._fetch_prices, lines 96-98: the first failing symbol ends the loop.
RECURSIVE BinanceLoop(_, _, _, _)
BinanceLoop(env, symbols, i, acc) ==
    IF i > Len(symbols) THEN acc
    ELSE IF TickerRaises("binance", env, symbols[i])
         THEN Block(TRUE, acc.result, Append(acc.log, <<"ticker", symbols[i], FALSE>>))
         ELSE BinanceLoop(env, symbols, i + 1,
                  Block(FALSE,
                        Put(acc.result, symbols[i], TickerLast("binance", symbols[i])),
                        Append(acc.log, <<"ticker", symbols[i], TRUE>>)))

\* BinanceAPI._fetch_prices, the body of the try (lines 90-98).
BinanceTry(env, symbols) ==
    IF symbols = <<>>
    THEN IF env.bulkFails
         THEN Block(TRUE, EmptyTable, << <<"bulk", <<>>, FALSE>> >>)
         ELSE Block(FALSE, BulkAnswer(env, AllTickers), << <<"bulk", <<>>, TRUE>> >>)
    ELSE BinanceLoop(env, symbols, 1, Block(FALSE, EmptyTable, <<>>))

\* The end of _fetch_prices: an exception leaving the outer try is caught.
Outcome(b) == IF b.exc THEN Caught(b) ELSE Returned(b)

Binance_fetch_prices(env, symbols) == Outcome(BinanceTry(env, symbols))

\* lines 261-267 and 272-278: one symbol fetched on its own, inside its own try.
OKCoinSingle(env, symbol, okcoin_symbol, acc) ==
    IF TickerRaises("okcoin", env, okcoin_symbol)
    THEN Block(FALSE, acc.result, Append(acc.log, <<"ticker", okcoin_symbol, FALSE>>))
    ELSE Block(FALSE, Put(acc.result, symbol, TickerLast("okcoin", okcoin_symbol)),
               Append(acc.log, <<"ticker", okcoin_symbol, TRUE>>))

\* OKCoinAPI._fetch_prices, lines 260-267 and 271-278: every symbol is fetched
\* on its own.
RECURSIVE OKCoinSingles(_, _, _, _)
OKCoinSingles(env, symbols, i, acc) ==
    IF i > Len(symbols) THEN acc
    ELSE OKCoinSingles(env, symbols, i + 1,
             OKCoinSingle(env, symbols[i], convert_symbol(symbols[i]), acc))

\* lines 242-244: a requested symbol the venue lists is recorded under its
\* native spelling; a later request of the same native symbol overwrites it.
Validate(symbol, okcoin_symbol, acc) ==
    IF okcoin_symbol \in Markets THEN Put(acc, okcoin_symbol, symbol) ELSE acc

\* lines 241-246: the local symbol_map, native symbol -> requested symbol.
RECURSIVE ValidMap(_, _, _)
ValidMap(symbols, i, acc) ==
    IF i > Len(symbols) THEN acc
    ELSE ValidMap(symbols, i + 1,
             Validate(symbols[i], convert_symbol(symbols[i]), acc))

\* lines 250-255: the batched answer, keyed back to the requested spelling.
RECURSIVE BatchResult(_, _, _)
BatchResult(valid, todo, acc) ==
    IF todo = {} THEN acc
    ELSE BatchResult(valid, todo \ {CHOOSE x \in todo : TRUE},
             Put(acc, valid[CHOOSE x \in todo : TRUE], Last(CHOOSE x \in todo : TRUE)))

\* A variant of line 258 without its condition: the per-symbol loop always runs.
OKCoinAfterBatch_Always(env, symbols, b) == OKCoinSingles(env, symbols, 1, b)

\* lines 257-267: nothing priced by the batched step: every symbol on its own.
OKCoinAfterBatch(env, symbols, b) ==
    IF DOMAIN b.result = {} /\ symbols # <<>>
    THEN OKCoinSingles(env, symbols, 1, b)
    ELSE b

\* lines 248-255: the batched call, issued when some requested symbol is listed.
OKCoinBatch(env, symbols, valid, log) ==
    IF DOMAIN valid = {}
    THEN OKCoinAfterBatch(env, symbols, Block(FALSE, EmptyTable, log))
    ELSE IF env.batchFails
    THEN Block(TRUE, EmptyTable, Append(log, <<"batch", <<>>, FALSE>>))
    ELSE OKCoinAfterBatch(env, symbols,
             Block(FALSE, BatchResult(valid, DOMAIN valid, EmptyTable),
                   Append(log, <<"batch", <<>>, TRUE>>)))

\* OKCoinAPI._fetch_prices, the body of the inner try (lines 233-267).
OKCoinBatchTry(env, symbols, log) ==
    IF env.marketsFail
    THEN Block(TRUE, EmptyTable, Append(log, <<"markets", <<>>, FALSE>>))
    ELSE OKCoinBatch(env, symbols, ValidMap(symbols, 1, EmptyTable),
                     Append(log, <<"markets", <<>>, TRUE>>))

\* A variant with the loop of lines 271-278 after the try instead of in its
\* except clause: it runs whether or not the batched step raised.
OKCoinExcept_Always(env, symbols, b) ==
    OKCoinSingles(env, symbols, 1, Block(FALSE, b.result, b.log))

\* lines 268-278: the except clause of the inner try: every symbol on its own.
OKCoinExcept(env, symbols, b) ==
    IF b.exc THEN OKCoinSingles(env, symbols, 1, Block(FALSE, b.result, b.log))
    ELSE b

\* lines 232-278: the inner try with its except clause.
OKCoinBatchStep(env, symbols, log) ==
    OKCoinExcept(env, symbols, OKCoinBatchTry(env, symbols, log))

\* lines 215-220: the full venue answer, every key translated back.
TranslatedTickers ==
    [s \in {reverse_convert_symbol(m) : m \in Markets} |->
        Last(CHOOSE m \in Markets : reverse_convert_symbol(m) = s)]

\* OKCoinAPI._fetch_prices, the body of the outer try (lines 208-278).
OKCoinTry(env, symbols) ==
    IF symbols = <<>>
    THEN IF env.bulkFails
         THEN OKCoinBatchStep(env, symbol_map_keys, << <<"bulk", <<>>, FALSE>> >>)
         ELSE Block(FALSE, BulkAnswer(env, TranslatedTickers),
                    << <<"bulk", <<>>, TRUE>> >>)
    ELSE OKCoinBatchStep(env, symbols, <<>>)

OKCoin_fetch_prices(env, symbols) == Outcome(OKCoinTry(env, symbols))

\* ExchangeAPI._fetch_prices of the base class.
Base_fetch_prices(env, symbols) ==
    [raised |-> TRUE, table |-> EmptyTable, log |-> <<>>]

\* self._fetch_prices(symbols), dispatched on the class of the instance.
fetch_prices(backend, env, symbols) ==
    IF backend = "binance" THEN Binance_fetch_prices(env, symbols)
    ELSE IF backend = "okcoin" THEN OKCoin_fetch_prices(env, symbols)
    ELSE Base_fetch_prices(env, symbols)

\* Some remote call issued by the invocation threw.
Threw(out) == \E i \in 1..Len(out.log) : ~out.log[i][3]

(***************************************************************************)
(* The Poller: one ExchangeAPI instance, its callers and its polling       *)
(* threads.                                                                *)
(***************************************************************************)
VARIABLES
    backend,            \* the class of the instance
    update_thread,      \* self._update_thread: None or a Thread object
    stop_thread,        \* self._stop_thread
    prices,             \* self.prices
    last_update_time,   \* self.last_update_time (a logical clock)
    threads,            \* the Thread objects: position in _price_update_loop, arguments
    pc,                 \* each caller's position in start_price_update / stop_price_update
    callArgs,           \* the arguments of the start_price_update call in progress
    joinee,             \* the Thread object a caller is joining
    lastOps,            \* history of the main caller: its last two completed calls
    nStarts,            \* ... its completed start_price_update calls (0, 1, 2 = more)
    lastArgs,           \* ... the arguments of its last completed start_price_update
    lastResult,         \* ... how its last completed call ended
    fetchIn,            \* a direct call of _fetch_prices: its inputs
    fetchOut,           \* ... and what it returned
    dicts,              \* the dict objects a price table can be, by identity
    prices_ref,         \* the dict object self.prices refers to
    frame,              \* the _fetch_prices call of the polling thread: its local result
    held,               \* the dict object a reader got from self.prices
    call,               \* the last call of the factory or of a lookup: its arguments
    ret,                \* ... and how it ended
    keystore            \* app.py: _simple_storage and the stored credentials

\* The memory behind self.prices: the dict objects and who refers to them.
memVars == <<dicts, prices_ref, frame, held>>

\* A client's calls of create_exchange_api, get_ticker_price, get_all_tickers
\* and set_api_key, and the credential store behind the latter.
apiVars == <<call, ret, keystore>>

vars == <<backend, update_thread, stop_thread, prices, last_update_time, threads,
          pc, callArgs, joinee, lastOps, nStarts, lastArgs, lastResult,
          fetchIn, fetchOut, memVars, apiVars>>

pollerVars == <<update_thread, stop_thread, prices, last_update_time, threads,
                pc, callArgs, joinee, lastOps, nStarts, lastArgs, lastResult>>

None == "None"

\* self._update_thread = None (line 14): no Thread object.
NoRef == 0

\* No arguments: no call in progress, no call completed yet.
NoArgs == [symbols |-> <<>>, callback |-> None, interval |-> 0]
\* The caller whose history is kept, and the callers that race each other.
Main == 0
Racers == 1..NumCallers
Callers == {Main} \cup Racers
ThreadIds == 1..MaxThreads

\* The arguments callers pass to start_price_update(symbols, callback, interval).
StartArgs ==
    { [symbols |-> <<BTCUSDT, ETHUSDT>>, callback |-> "cb", interval |-> 1],
      [symbols |-> <<>>, callback |-> None, interval |-> 5] }

NoThread ==
    [pc |-> "free", args |-> NoArgs, out |-> "none", threw |-> FALSE,
     result |-> EmptyTable, cbCalls |-> 0, cbArg |-> EmptyTable, cbRaised |-> FALSE]

\* threading.Thread(target=self._price_update_loop, args=(...)), not yet started.
NewThread(args) == [NoThread EXCEPT !.pc = "created", !.args = args]

\* Thread.is_alive(): started and not yet finished.
IsAlive(t) == threads[t].pc \in {"check", "fetching", "in_callback", "sleeping"}

AliveThreads == {t \in ThreadIds : IsAlive(t)}

\* A Thread object nobody refers to any more is dropped once it cannot run.
Collect(thr, ut, js) ==
    [t \in ThreadIds |->
        IF /\ thr[t].pc \in {"created", "dead"}
           /\ ut # t
           /\ \A c \in Callers : js[c] # t
        THEN NoThread ELSE thr[t]]

\* The history kept of a call completed by the main caller.
Finish(c, op, args, res) ==
    IF c = Main
    THEN /\ lastOps' = IF Len(lastOps) < 2 THEN Append(lastOps, op)
                       ELSE <<lastOps[2], op>>
         /\ nStarts' = IF op = "start" /\ nStarts < 2 THEN nStarts + 1 ELSE nStarts
         /\ lastArgs' = IF op = "start" THEN args ELSE lastArgs
         /\ lastResult' = res
    ELSE UNCHANGED <<lastOps, nStarts, lastArgs, lastResult>>

NoFinish == UNCHANGED <<lastOps, nStarts, lastArgs, lastResult>>

(***************************************************************************)
(* start_price_update (lines 25-36).                                       *)
(***************************************************************************)
\* A variant without the test of line 27: every start goes on to line 30.
AlreadyRunning_Never == FALSE

\* A variant that restarts over a thread that was told to stop but still runs.
AlreadyRunning_UnlessStopped ==
    update_thread # NoRef /\ IsAlive(update_thread) /\ ~stop_thread

\* line 27: if self._update_thread and self._update_thread.is_alive(): return
AlreadyRunning == update_thread # NoRef /\ IsAlive(update_thread)

StartCall(c, args) ==
    /\ pc[c] = "idle"
    /\ IF AlreadyRunning
       THEN /\ Finish(c, "start", args, "noop")
            /\ UNCHANGED <<pc, callArgs>>
       ELSE /\ pc' = [pc EXCEPT ![c] = "start_30"]
            /\ callArgs' = [callArgs EXCEPT ![c] = args]
            /\ NoFinish
    /\ UNCHANGED <<backend, update_thread, stop_thread, prices, last_update_time,
                   threads, joinee, fetchIn, fetchOut, memVars, apiVars>>

\* A variant of line 30 left out: the flag keeps the value stop_price_update set.
ClearedFlag_Kept == stop_thread

\* line 30: self._stop_thread = False
ClearedFlag == FALSE

StartClear(c) ==
    /\ pc[c] = "start_30"
    /\ stop_thread' = ClearedFlag
    /\ pc' = [pc EXCEPT ![c] = "start_31"]
    /\ NoFinish
    /\ UNCHANGED <<backend, update_thread, prices, last_update_time, threads,
                   callArgs, joinee, fetchIn, fetchOut, memVars, apiVars>>

\* lines 31-35: self._update_thread = threading.Thread(...)
StartCreate(c) ==
    /\ pc[c] = "start_31"
    /\ \E t \in ThreadIds :
        /\ threads[t].pc = "free"
        /\ \A u \in ThreadIds : threads[u].pc = "free" => t <= u
        /\ update_thread' = t
        /\ threads' = Collect([threads EXCEPT ![t] = NewThread(callArgs[c])], t, joinee)
    /\ pc' = [pc EXCEPT ![c] = "start_36"]
    /\ NoFinish
    /\ UNCHANGED <<backend, stop_thread, prices, last_update_time, callArgs, joinee,
                   fetchIn, fetchOut, memVars, apiVars>>

\* line 36: self._update_thread.start(); a Thread can be started only once.
StartRun(c) ==
    /\ pc[c] = "start_36"
    /\ IF threads[update_thread].pc = "created"
       THEN /\ threads' = [threads EXCEPT ![update_thread].pc = "check"]
            /\ Finish(c, "start", callArgs[c], "spawned")
       ELSE /\ UNCHANGED threads
            /\ Finish(c, "start", callArgs[c], "error")
    /\ pc' = [pc EXCEPT ![c] = "idle"]
    /\ callArgs' = [callArgs EXCEPT ![c] = NoArgs]
    /\ UNCHANGED <<backend, update_thread, stop_thread, prices, last_update_time,
                   joinee, fetchIn, fetchOut, memVars, apiVars>>

(***************************************************************************)
(* stop_price_update (lines 38-42).                                        *)
(***************************************************************************)
\* line 40: self._stop_thread = True
StopCall(c) ==
    /\ pc[c] = "idle"
    /\ stop_thread' = TRUE
    /\ pc' = [pc EXCEPT ![c] = "stop_41"]
    /\ NoFinish
    /\ UNCHANGED <<backend, update_thread, prices, last_update_time, threads,
                   callArgs, joinee, fetchIn, fetchOut, memVars, apiVars>>

\* line 41: if self._update_thread: ... ; line 42: join() of a Thread that was
\* never started raises RuntimeError.
StopJoin(c) ==
    /\ pc[c] = "stop_41"
    /\ IF update_thread = NoRef
       THEN /\ Finish(c, "stop", NoArgs, "nothread")
            /\ pc' = [pc EXCEPT ![c] = "idle"]
            /\ UNCHANGED joinee
       ELSE IF threads[update_thread].pc = "created"
       THEN /\ Finish(c, "stop", NoArgs, "error")
            /\ pc' = [pc EXCEPT ![c] = "idle"]
            /\ UNCHANGED joinee
       ELSE /\ NoFinish
            /\ pc' = [pc EXCEPT ![c] = "joining"]
            /\ joinee' = [joinee EXCEPT ![c] = update_thread]
    /\ UNCHANGED <<backend, update_thread, stop_thread, prices, last_update_time,
                   threads, callArgs, fetchIn, fetchOut, memVars, apiVars>>

\* A variant of line 42 with no timeout: join() returns only once the thread
\* has finished.
JoinMayReturn_NoTimeout(t) == ~IsAlive(t)

\* line 42: join(timeout=1.0) returns when the thread has finished or when the
\* timeout has elapsed, whichever comes first.
JoinTimeout == 1

JoinMayReturn(t) == ~IsAlive(t) \/ JoinTimeout >= 0

JoinReturn(c) ==
    /\ pc[c] = "joining"
    /\ JoinMayReturn(joinee[c])
    /\ Finish(c, "stop", NoArgs, IF IsAlive(joinee[c]) THEN "timeout" ELSE "joined")
    /\ pc' = [pc EXCEPT ![c] = "idle"]
    /\ joinee' = [joinee EXCEPT ![c] = NoRef]
    /\ threads' = Collect(threads, update_thread, joinee')
    /\ UNCHANGED <<backend, update_thread, stop_thread, prices, last_update_time,
                   callArgs, fetchIn, fetchOut, memVars, apiVars>>

(***************************************************************************)
(* _price_update_loop (lines 44-54), one thread t.                         *)
(***************************************************************************)
\* line 46: while not self._stop_thread
LoopCheck(t) ==
    /\ threads[t].pc = "check"
    /\ stop_thread \/ last_update_time < MaxTime
    /\ threads' =
         IF stop_thread
         THEN Collect([threads EXCEPT ![t] = [NoThread EXCEPT !.pc = "dead"]],
                      update_thread, joinee)
         ELSE [threads EXCEPT ![t].pc = "fetching"]
    /\ NoFinish
    /\ UNCHANGED <<backend, update_thread, stop_thread, prices, last_update_time,
                   pc, callArgs, joinee, fetchIn, fetchOut, memVars, apiVars>>

\* A variant of line 48 that updates the table in place: self.prices.update(...)
NewTable_Merged(old, out) ==
    [s \in DOMAIN old \cup DOMAIN out.table |->
        IF s \in DOMAIN out.table THEN out.table[s] ELSE old[s]]

\* line 48: self.prices = <the table _fetch_prices returned>
NewTable(old, out) == out.table

\* A variant with the callback outside the try: it is called in every cycle.
CallsThisCycle_EveryCycle(args, out) == IF args.callback # None THEN 1 ELSE 0

\* lines 48-51: the callback is reached only when a callback was supplied and
\* the fetch of line 48 did not raise; it is then called once.
CallsThisCycle(args, out) == IF ~out.raised /\ args.callback # None THEN 1 ELSE 0

\* lines 48-51, up to the call of the callback; a fetch that raised goes to the
\* except clause of line 52 and on to the sleep.
Store(t, me, out) ==
    /\ prices' = IF out.raised THEN prices ELSE NewTable(prices, out)
    /\ last_update_time' = IF out.raised THEN last_update_time
                           ELSE last_update_time + 1
    /\ threads' = [threads EXCEPT ![t] =
           [me EXCEPT !.out = IF out.raised THEN "raised" ELSE "table",
                      !.threw = out.threw,
                      !.result = IF out.raised THEN me.result ELSE out.table,
                      !.pc = IF CallsThisCycle(me.args, out) > 0
                             THEN "in_callback" ELSE "sleeping",
                      !.cbCalls = me.cbCalls + CallsThisCycle(me.args, out),
                      !.cbArg = IF CallsThisCycle(me.args, out) > 0
                                THEN prices' ELSE me.cbArg]]

\* What the loop reads of a returned fetch: whether it raised, the table, and
\* whether some remote call of the invocation threw.
Digest(out) == [raised |-> out.raised, table |-> out.table, threw |-> Threw(out)]

\* Every way self._fetch_prices(symbols) can end, over all patterns of remote
\* failures, for each class of instance and each symbol list a caller passes.
FetchOutcomes ==
    [b \in Backends \cup {"base"}, a \in StartArgs |->
        {Digest(fetch_prices(b, env, a.symbols)) : env \in Envs}]

FetchReturn(t) ==
    /\ threads[t].pc = "fetching"
    /\ \E out \in FetchOutcomes[backend, threads[t].args] : Store(t, threads[t], out)
    /\ NoFinish
    /\ UNCHANGED <<backend, update_thread, stop_thread, pc, callArgs, joinee,
                   fetchIn, fetchOut, memVars, apiVars>>

\* A variant with the callback outside the try: its exception ends the thread.
AfterCallback_Uncaught(raised) == IF raised THEN "dead" ELSE "sleeping"

\* lines 52-54: an exception of the callback is caught and printed; the loop
\* goes on to time.sleep(interval).
AfterCallback(raised) == "sleeping"

CallbackReturn(t) ==
    /\ threads[t].pc = "in_callback"
    /\ \E raised \in BOOLEAN :
        threads' = Collect([threads EXCEPT ![t].pc = AfterCallback(raised),
                                           ![t].cbRaised = raised],
                           update_thread, joinee)
    /\ NoFinish
    /\ UNCHANGED <<backend, update_thread, stop_thread, prices, last_update_time,
                   pc, callArgs, joinee, fetchIn, fetchOut, memVars, apiVars>>

\* line 54: time.sleep(interval) returns
Wake(t) ==
    /\ threads[t].pc = "sleeping"
    /\ threads' = [threads EXCEPT ![t] = [NoThread EXCEPT !.pc = "check",
                                                        !.args = threads[t].args]]
    /\ NoFinish
    /\ UNCHANGED <<backend, update_thread, stop_thread, prices, last_update_time,
                   pc, callArgs, joinee, fetchIn, fetchOut, memVars, apiVars>>

(***************************************************************************)
(* The memory behind self.prices.  A dict is an object with an identity;   *)
(* self.prices, the local `result` of a _fetch_prices call and a reader    *)
(* each hold a reference to one.                                           *)
(***************************************************************************)
MaxDicts == 3
DictIds == 1..MaxDicts

NoDict == [live |-> FALSE, table |-> EmptyTable]

\* {} : a new, empty dict object (lines 13, 88, 206)
NewDict == [live |-> TRUE, table |-> EmptyTable]

\* No _fetch_prices call of the polling thread in progress.
NoFrame == [pc |-> "none", result |-> NoRef, final |-> EmptyTable]

\* line 13: self.prices = {}
InitMem ==
    /\ dicts = [o \in DictIds |-> IF o = 1 THEN NewDict ELSE NoDict]
    /\ prices_ref = 1
    /\ frame = NoFrame
    /\ held = NoRef

\* An object nothing refers to any more is reclaimed.
Release(ds, pr, fr, h) ==
    [o \in DictIds |-> IF o = pr \/ o = fr.result \/ o = h THEN ds[o] ELSE NoDict]

\* A variant that refills the published dict (self.prices.clear(), then the
\* insertions) instead of building a new one.
FreshDict_InPlace == prices_ref

\* The identity of the dict `result = {}` creates: an object that did not exist.
FreshDict ==
    CHOOSE o \in DictIds :
        ~dicts[o].live /\ \A u \in DictIds : ~dicts[u].live => o <= u

restOfPoller == <<update_thread, stop_thread, threads, pc, callArgs, joinee,
                  lastOps, nStarts, lastArgs, lastResult>>

\* line 48 calls self._fetch_prices(symbols), which starts with `result = {}`
\* (lines 88, 206; the dict comprehension of line 93 also builds a new dict).
\* `final` is the table this call is going to return.
ResultNew ==
    /\ frame.pc = "none"
    /\ last_update_time < MaxTime
    /\ \E a \in StartArgs : \E out \in FetchOutcomes[backend, a] :
        /\ ~out.raised
        /\ frame' = [pc |-> "filling", result |-> FreshDict, final |-> out.table]
        /\ dicts' = [dicts EXCEPT ![FreshDict] = NewDict]
    /\ UNCHANGED <<backend, pollerVars, fetchIn, fetchOut, apiVars, prices_ref, held>>

\* result[symbol] = ticker['last'] (lines 98, 218, 254, 263, 274): the local
\* dict is filled in place, one key at a time.
ResultInsert ==
    /\ frame.pc = "filling"
    /\ \E k \in DOMAIN frame.final \ DOMAIN dicts[frame.result].table :
        dicts' = [dicts EXCEPT ![frame.result].table = Put(@, k, frame.final[k])]
    /\ UNCHANGED <<backend, pollerVars, fetchIn, fetchOut, apiVars, prices_ref, frame, held>>

\* `return result`, then lines 48-49: self.prices = <the returned dict>.
PricesAssign ==
    /\ frame.pc = "filling"
    /\ DOMAIN dicts[frame.result].table = DOMAIN frame.final
    /\ prices_ref' = frame.result
    /\ prices' = dicts[frame.result].table
    /\ last_update_time' = last_update_time + 1
    /\ frame' = NoFrame
    /\ dicts' = Release(dicts, prices_ref', frame', held)
    /\ UNCHANGED <<backend, restOfPoller, fetchIn, fetchOut, apiVars, held>>

\* A reader on another thread evaluates api.prices and keeps the dict.
ReadPrices ==
    /\ held' = prices_ref
    /\ dicts' = Release(dicts, prices_ref, frame, held')
    /\ held' # held
    /\ UNCHANGED <<backend, pollerVars, fetchIn, fetchOut, apiVars, prices_ref, frame>>

(***************************************************************************)
(* The factory and the lookups a client calls directly.                    *)
(***************************************************************************)
UpperCase == <<"A", "B", "C", "D", "E", "F", "G", "H", "I", "J", "K", "L", "M",
               "N", "O", "P", "Q", "R", "S", "T", "U", "V", "W", "X", "Y", "Z">>
LowerCase == <<"a", "b", "c", "d", "e", "f", "g", "h", "i", "j", "k", "l", "m",
               "n", "o", "p", "q", "r", "s", "t", "u", "v", "w", "x", "y", "z">>

LowerChar(c) ==
    IF \E i \in 1..Len(UpperCase) : UpperCase[i] = c
    THEN LowerCase[CHOOSE i \in 1..Len(UpperCase) : UpperCase[i] = c]
    ELSE c

\* str.lower()
Lower(name) == [i \in 1..Len(name) |-> LowerChar(name[i])]

\* The names a client passes to create_exchange_api.
ExchangeNames ==
    { <<"b", "i", "n", "a", "n", "c", "e">>,
      <<"B", "i", "n", "a", "n", "c", "e">>,
      <<"B", "I", "N", "A", "N", "C", "E">>,
      <<"o", "k", "c", "o", "i", "n">>,
      <<"O", "K", "C", "o", "i", "n">>,
      <<"u", "n", "k", "n", "o", "w", "n">>,
      <<"K", "r", "a", "k", "e", "n">>,
      <<"o", "k", "x">> }

\* The f-string of line 309: its fixed text (here one element, in English),
\* then the characters of exchange_name.
Unsupported(exchange_name) == <<"unsupported exchange: ">> \o exchange_name

\* line 303: exchange_name = exchange_name.lower()
Normalised(exchange_name) == Lower(exchange_name)

\* lines 304-309, with exchange_name as line 303 left it.
Dispatch(exchange_name) ==
    IF exchange_name = <<"b", "i", "n", "a", "n", "c", "e">>
    THEN [raised |-> FALSE, kind |-> None, message |-> <<>>, class |-> "binance"]
    ELSE IF exchange_name = <<"o", "k", "c", "o", "i", "n">>
    THEN [raised |-> FALSE, kind |-> None, message |-> <<>>, class |-> "okcoin"]
    ELSE [raised |-> TRUE, kind |-> "ValueError",
          message |-> Unsupported(exchange_name), class |-> None]

create_exchange_api(exchange_name) == Dispatch(Normalised(exchange_name))

\* One lookup's pattern of remote failures: the calls that raise and the
\* tickers that come back without a usable 'last'.
ApiEnvs ==
    [bulkFails : BOOLEAN, singleFails : SUBSET Markets, malformed : SUBSET Markets]

\* A price, or None.
Absent == [absent |-> TRUE, price |-> 0]
Price(p) == [absent |-> FALSE, price |-> p]

\* The try body of get_ticker_price: fetch_ticker(arg), then ticker['last'].
TickerTry(b, env, arg) ==
    IF TickerRaises(b, env, arg) THEN [exc |-> TRUE, value |-> Absent]
    ELSE IF Resolve(b, arg) \cap env.malformed # {} THEN [exc |-> TRUE, value |-> Absent]
    ELSE [exc |-> FALSE, value |-> Price(TickerLast(b, arg))]

\* A variant with no except clause: the exception reaches the caller.
TickerOutcome_Propagates(t) == [raised |-> t.exc, value |-> t.value]

\* lines 75-77, 186-189: except Exception: print, return None
TickerOutcome(t) == [raised |-> FALSE, value |-> IF t.exc THEN Absent ELSE t.value]

\* BinanceAPI.get_ticker_price (lines 71-77), OKCoinAPI.get_ticker_price (181-189)
get_ticker_price(b, env, symbol) ==
    TickerOutcome(TickerTry(b, env, IF b = "okcoin" THEN convert_symbol(symbol)
                                    ELSE symbol))

\* tickers.items(): the venue's answer, in the order it lists its markets.
MarketOrder == <<BTC_USDT, ETH_USDT, ETH_BTC>>

\* The key a backend gives a ticker of the full answer (lines 82, 197).
AllKey(b, market) == IF b = "okcoin" THEN reverse_convert_symbol(market) ELSE market

\* lines 82, 196-198: the answer processed ticker by ticker; a ticker without
\* 'last' raises and ends the processing.
RECURSIVE AllLoop(_, _, _, _)
AllLoop(b, env, i, acc) ==
    IF i > Len(MarketOrder) THEN [exc |-> FALSE, result |-> acc]
    ELSE IF MarketOrder[i] \in env.malformed THEN [exc |-> TRUE, result |-> acc]
    ELSE AllLoop(b, env, i + 1,
                 Put(acc, AllKey(b, MarketOrder[i]), Last(MarketOrder[i])))

\* The try body of get_all_tickers (lines 80-82, 192-199).
AllTry(b, env) ==
    IF env.bulkFails THEN [exc |-> TRUE, result |-> EmptyTable]
    ELSE AllLoop(b, env, 1, EmptyTable)

\* A variant whose except clause returns what was collected: return result
AllOutcome_Partial(t) == [raised |-> FALSE, table |-> t.result]

\* lines 83-85, 200-203: except Exception: print, return {}
AllOutcome(t) == [raised |-> FALSE, table |-> IF t.exc THEN EmptyTable ELSE t.result]

\* BinanceAPI.get_all_tickers (lines 79-85), OKCoinAPI.get_all_tickers (191-203)
get_all_tickers(b, env) == AllOutcome(AllTry(b, env))

NoApiCall == [op |-> "none"]
NoReturn == [raised |-> FALSE]

allButApi == <<pollerVars, fetchIn, fetchOut, memVars, keystore>>

\* The symbols a client asks for.
RequestSymbols == {BTCUSDT, ETHUSDT, ETHBTC, NOPEUSDT, BTC_USDT}

\* api = create_exchange_api(exchange_name, None, None)
Create ==
    /\ call = NoApiCall
    /\ \E name \in ExchangeNames :
        /\ call' = [op |-> "create", name |-> name]
        /\ ret' = create_exchange_api(name)
        /\ backend' = ret'.class
    /\ UNCHANGED allButApi

\* api.get_ticker_price(symbol)
GetTickerPrice ==
    /\ call.op = "create"
    /\ backend \in Backends
    /\ \E symbol \in RequestSymbols, env \in ApiEnvs :
        /\ call' = [op |-> "get_ticker_price", symbol |-> symbol, env |-> env]
        /\ ret' = get_ticker_price(backend, env, symbol)
    /\ UNCHANGED <<backend, allButApi>>

\* api.get_all_tickers()
GetAllTickers ==
    /\ call.op = "create"
    /\ backend \in Backends
    /\ \E env \in ApiEnvs :
        /\ call' = [op |-> "get_all_tickers", env |-> env]
        /\ ret' = get_all_tickers(backend, env)
    /\ UNCHANGED <<backend, allButApi>>

\* The symbols a client has translated: the keys of the explicit map and the
\* other spellings a request or a venue answer can have.
\* Every string of at most MaxLen characters over a letter and the separator:
\* shorter than, as long as and longer than the 4 characters line 171 cuts off.
MaxLen == 5
ShortSymbols == UNION {[1..n -> {"A", "/"}] : n \in 0..MaxLen}

TranslateSymbols ==
    {symbol_map_keys[i] : i \in 1..Len(symbol_map_keys)}
    \cup RequestSymbols \cup Markets \cup ShortSymbols \cup {<<"B", "T", "C">>}

\* native = api._convert_symbol(symbol)
ConvertSymbol ==
    /\ call.op = "create"
    /\ backend = "okcoin"
    /\ \E symbol \in TranslateSymbols :
        /\ call' = [op |-> "convert", symbol |-> symbol]
        /\ ret' = [raised |-> FALSE, value |-> convert_symbol(symbol)]
    /\ UNCHANGED <<backend, allButApi>>

\* back = api._reverse_convert_symbol(native)
ReverseSymbol ==
    /\ call.op = "convert"
    /\ call' = [op |-> "round_trip", symbol |-> call.symbol, native |-> ret.value]
    /\ ret' = [raised |-> FALSE, value |-> reverse_convert_symbol(ret.value)]
    /\ UNCHANGED <<backend, allButApi>>

\* again = api._convert_symbol(native)
ConvertAgain ==
    /\ call.op = "convert"
    /\ call' = [op |-> "convert_twice", symbol |-> call.symbol, native |-> ret.value]
    /\ ret' = [raised |-> FALSE, value |-> convert_symbol(ret.value)]
    /\ UNCHANGED <<backend, allButApi>>

(***************************************************************************)
(* app.py: set_api_key and the credential store.  The store is the file of *)
(* SimpleFileStorage when the process has no terminal, the keyring of the  *)
(* platform otherwise.                                                     *)
(***************************************************************************)
EntryNames == {"api_key", "api_secret"}
ApiKeys == {"key1", "key2"}
ApiSecrets == {"secret1", "secret2"}

\* A password as the keyring holds it.
Plain(text) == [enc |-> FALSE, text |-> text]

\* credentials.txt does not exist / the keyring holds nothing.
NoEntries == [n \in EntryNames |-> Plain(None)]

\* Before the first init_keyring(): _simple_storage is None and the process
\* has not yet looked at its standard input.
NoKeystore == [tty |-> None, simple_storage |-> None, entries |-> NoEntries]

\* SimpleFileStorage._encrypt (app.py 46-55): the text XORed with the key,
\* base64-encoded; not the text itself.
Encrypt(text) == [enc |-> TRUE, text |-> text]

\* What one call meets: the terminal the process has (read at its first
\* init_keyring), a store that cannot be initialised, credentials the venue
\* rejects, the writes that fail, and whether a failing write of the file
\* fails after open(..., 'w') has emptied it.
StoreEnvs ==
    [interactive : BOOLEAN, initFails : BOOLEAN, verifyFails : BOOLEAN,
     writeFails : SUBSET {1, 2}, truncated : BOOLEAN]

\* sys.stdin.isatty() (app.py 171-174), the same for the life of the process.
Tty(ks, env) ==
    IF ks.tty # None THEN ks.tty
    ELSE IF env.interactive THEN "tty" ELSE "notty"

\* init_keyring (app.py 166-239): with no terminal _simple_storage is set,
\* unless SimpleFileStorage() raises; with a terminal a keyring backend is
\* chosen and _simple_storage keeps its value.
init_keyring(ks, env) ==
    [ok |-> ~env.initFails,
     keystore |->
        [ks EXCEPT !.tty = Tty(ks, env),
                   !.simple_storage =
                       IF Tty(ks, env) = "notty" /\ ~env.initFails
                       THEN "SimpleFileStorage" ELSE ks.simple_storage]]

\* SimpleFileStorage.set_password (app.py 72-105): every exception is caught
\* and reported as False; the file is rewritten as a whole.
set_password(entries, username, password, fails, truncated) ==
    IF fails
    THEN [ok |-> FALSE, entries |-> IF truncated THEN NoEntries ELSE entries]
    ELSE [ok |-> TRUE, entries |-> [entries EXCEPT ![username] = Encrypt(password)]]

\* app.py 281-282: the second set_password follows the first whatever it
\* returned; line 289 returns True.
SaveSimpleSecond(first, api_secret, env) ==
    [value |-> "True",
     entries |-> set_password(first.entries, "api_secret", api_secret,
                              2 \in env.writeFails, env.truncated).entries]

SaveSimple(entries, api_key, api_secret, env) ==
    SaveSimpleSecond(set_password(entries, "api_key", api_key,
                                  1 \in env.writeFails, env.truncated),
                     api_secret, env)

\* app.py 285-286 and 290-295: keyring.set_password raises when it fails; the
\* except clause returns the message.
SaveKeyring(entries, api_key, api_secret, env) ==
    IF 1 \in env.writeFails
    THEN [value |-> "save_error", entries |-> entries]
    ELSE IF 2 \in env.writeFails
    THEN [value |-> "save_error", entries |-> [entries EXCEPT !["api_key"] = Plain(api_key)]]
    ELSE [value |-> "True",
          entries |-> [entries EXCEPT !["api_key"] = Plain(api_key),
                                      !["api_secret"] = Plain(api_secret)]]

\* app.py 279-289: the store _simple_storage selects.
Save(ks, api_key, api_secret, env) ==
    IF ks.simple_storage # None
    THEN SaveSimple(ks.entries, api_key, api_secret, env)
    ELSE SaveKeyring(ks.entries, api_key, api_secret, env)

\* app.py 271-299, after init_keyring() returned True.
VerifyAndSave(ks, api_key, api_secret, env) ==
    IF env.verifyFails
    THEN [value |-> "verify_error", keystore |-> ks]
    ELSE [value |-> Save(ks, api_key, api_secret, env).value,
          keystore |-> [ks EXCEPT !.entries = Save(ks, api_key, api_secret, env).entries]]

\* set_api_key (app.py 266-299)
InitThenSave(init, api_key, api_secret, env) ==
    IF ~init.ok
    THEN [value |-> "init_error", keystore |-> init.keystore]
    ELSE VerifyAndSave(init.keystore, api_key, api_secret, env)

set_api_key(ks, api_key, api_secret, env) ==
    InitThenSave(init_keyring(ks, env), api_key, api_secret, env)

\* result = set_api_key(api_key, api_secret)
SetApiKey ==
    \E api_key \in ApiKeys, api_secret \in ApiSecrets, env \in StoreEnvs :
        /\ call' = [op |-> "set_api_key", api_key |-> api_key,
                    api_secret |-> api_secret, env |-> env,
                    before |-> keystore.entries]
        /\ ret' = [raised |-> FALSE,
                   value |-> set_api_key(keystore, api_key, api_secret, env).value]
        /\ keystore' = set_api_key(keystore, api_key, api_secret, env).keystore
        /\ UNCHANGED <<backend, pollerVars, fetchIn, fetchOut, memVars>>

(***************************************************************************)
(* Specifications.                                                         *)
(***************************************************************************)
NoCall == [called |-> FALSE, env |-> CHOOSE e \in Envs : TRUE, symbols |-> <<>>]
NoOutput == [raised |-> FALSE, table |-> EmptyTable, log |-> <<>>]

\* ExchangeAPI.__init__ (lines 9-15)
InitPoller ==
    /\ update_thread = NoRef
    /\ stop_thread = FALSE
    /\ prices = EmptyTable
    /\ last_update_time = 0
    /\ threads = [t \in ThreadIds |-> NoThread]
    /\ pc = [c \in Callers |-> "idle"]
    /\ callArgs = [c \in Callers |-> NoArgs]
    /\ joinee = [c \in Callers |-> NoRef]
    /\ lastOps = <<>>
    /\ nStarts = 0
    /\ lastArgs = NoArgs
    /\ lastResult = None
    /\ InitMem
    /\ call = NoApiCall
    /\ ret = NoReturn
    /\ keystore = NoKeystore

Init ==
    /\ backend \in Backends \cup {"base"}
    /\ InitPoller
    /\ fetchIn = NoCall
    /\ fetchOut = NoOutput

CallerStep(c, argsSet) ==
    \/ \E args \in argsSet : StartCall(c, args)
    \/ StartClear(c)
    \/ StartCreate(c)
    \/ StartRun(c)
    \/ StopCall(c)
    \/ StopJoin(c)
    \/ JoinReturn(c)

ThreadStep(t) ==
    \/ LoopCheck(t)
    \/ FetchReturn(t)
    \/ CallbackReturn(t)
    \/ Wake(t)

\* One caller, concurrent with the polling threads.
Next ==
    \/ CallerStep(Main, StartArgs)
    \/ \E t \in ThreadIds : ThreadStep(t)

Spec == Init /\ [][Next]_vars

\* The same, with the scheduling the threads get: a thread at the loop test
\* takes it, time.sleep(interval) ends, and the fetch and the callback in
\* flight return (no thread stays in a fetch for ever).
Fairness ==
    \A t \in ThreadIds :
        /\ WF_vars(LoopCheck(t))
        /\ WF_vars(Wake(t))
        /\ WF_vars(CallbackReturn(t))
        /\ []<>(threads[t].pc # "fetching")

SpecLive == Init /\ [][Next]_vars /\ Fairness

\* Concurrent callers of one BinanceAPI instance, all passing the same arguments.
RaceArgs == {a \in StartArgs : a.callback # None}

InitRace == Init /\ backend = "binance"

NextRace ==
    \/ \E c \in Racers : CallerStep(c, RaceArgs)
    \/ \E t \in ThreadIds : ThreadStep(t)

SpecRace == InitRace /\ [][NextRace]_vars

(***************************************************************************)
(* _fetch_prices called directly: every symbol list up to MaxSymbols over  *)
(* RequestSymbols, and the list of every symbol the venue lists, under     *)
(* every pattern of remote failures.                                       *)
(***************************************************************************)
\* Every symbol the venue lists, in canonical spelling: the keys of its full
\* answer translated back.
AllKnownSymbols == [i \in 1..Len(MarketOrder) |-> reverse_convert_symbol(MarketOrder[i])]

SymbolLists ==
    UNION {[1..n -> RequestSymbols] : n \in 0..MaxSymbols} \cup {AllKnownSymbols}

InitFetch ==
    /\ backend \in Backends
    /\ InitPoller
    /\ fetchIn \in [called : {FALSE}, env : Envs, symbols : SymbolLists]
    /\ fetchOut = NoOutput

FetchCall ==
    /\ ~fetchIn.called
    /\ fetchIn' = [fetchIn EXCEPT !.called = TRUE]
    /\ fetchOut' = fetch_prices(backend, fetchIn.env, fetchIn.symbols)
    /\ UNCHANGED <<backend, pollerVars, memVars, apiVars>>

NextFetch == FetchCall

SpecFetch == InitFetch /\ [][NextFetch]_vars

(***************************************************************************)
(* The polling thread's cycles at the level of dict objects, beside a      *)
(* reader of self.prices.                                                  *)
(***************************************************************************)
InitSnapshot ==
    /\ backend \in Backends
    /\ InitPoller
    /\ fetchIn = NoCall
    /\ fetchOut = NoOutput

NextSnapshot ==
    \/ ResultNew
    \/ ResultInsert
    \/ PricesAssign
    \/ ReadPrices

SpecSnapshot == InitSnapshot /\ [][NextSnapshot]_vars

(***************************************************************************)
(* A client: the factory, then one lookup on the instance it returned.     *)
(***************************************************************************)
InitClient ==
    /\ backend = None
    /\ InitPoller
    /\ fetchIn = NoCall
    /\ fetchOut = NoOutput

NextClient ==
    \/ Create
    \/ GetTickerPrice
    \/ GetAllTickers
    \/ ConvertSymbol
    \/ ReverseSymbol
    \/ ConvertAgain

SpecClient == InitClient /\ [][NextClient]_vars

(***************************************************************************)
(* The credential store: set_api_key called again and again in one process.*)
(***************************************************************************)
InitStore == InitClient

NextStore == SetApiKey

SpecStore == InitStore /\ [][NextStore]_vars


(***************************************************************************)
(* Claims.                                                                 *)
(***************************************************************************)

\* C1: whatever the interleaving of concurrent start_price_update and
\* stop_price_update calls, at most one polling thread is alive at any time.
C1_AtMostOneTask == Cardinality(AliveThreads) <= 1

\* C2: after two start_price_update calls in a row by one caller, with no stop
\* in between, exactly one polling thread is alive, the second call spawned
\* nothing and the running thread still has the arguments it was started with.
C2_DoubleStartOneTask ==
    (lastOps = <<"start", "start">> /\ pc[Main] = "idle") =>
        /\ Cardinality(AliveThreads) = 1
        /\ lastResult = "noop"

\* C3: on Binance and OKCoin, a polling cycle in which a remote call threw
\* leaves the shared price table as it was before the cycle.
C3_ThrowKeepsTable ==
    [][\A t \in ThreadIds :
          (/\ backend \in Backends
           /\ threads[t].pc = "fetching"
           /\ threads'[t].pc # "fetching"
           /\ threads'[t].threw) => prices' = prices]_vars

\* C4: once a start_price_update issued after a returned stop_price_update has
\* itself returned, a polling thread is running for the newly supplied
\* arguments and the stop flag is clear, so that it goes on performing cycles.
C4_RestartAfterStop ==
    (lastOps = <<"stop", "start">> /\ pc[Main] = "idle") =>
        /\ ~stop_thread
        /\ \E t \in AliveThreads : threads[t].args = lastArgs

\* The table of the example: both symbols requested, no remote failure.
ExampleTable == [s \in {BTCUSDT, ETHUSDT} |-> IF s = BTCUSDT THEN 65000 ELSE 3500]

\* C5: from the store of a cycle whose fetch did not raise to the end of that
\* cycle, the shared table is exactly the table that fetch returned (empty when
\* it returned the empty table); with BTCUSDT and ETHUSDT requested and no
\* remote failure it is {BTCUSDT: 65000, ETHUSDT: 3500}.
C5_TableIsFetchResult ==
    \A t \in ThreadIds :
        (threads[t].pc \in {"in_callback", "sleeping"} /\ threads[t].out = "table") =>
            /\ prices = threads[t].result
            /\ (/\ backend \in Backends
                /\ threads[t].args.symbols = <<BTCUSDT, ETHUSDT>>
                /\ ~threads[t].threw) => prices = ExampleTable

\* A second store that returned the empty table has emptied the shared table.
C5_Witness ==
    \E t \in ThreadIds :
        /\ threads[t].pc = "sleeping"
        /\ threads[t].out = "table"
        /\ threads[t].result = EmptyTable
        /\ last_update_time = 2
        /\ prices = EmptyTable

\* C6: in every cycle that produced a table the supplied callback is invoked
\* exactly once, with the shared table of that moment; it is not invoked at all
\* in a cycle whose fetch raised, nor when no callback was supplied.
C6_CallbackOncePerTable ==
    \A t \in ThreadIds :
        /\ threads[t].pc = "in_callback" =>
              threads[t].cbCalls = 1 /\ threads[t].cbArg = prices
        /\ (threads[t].pc = "sleeping" /\ threads[t].out = "table"
              /\ threads[t].args.callback # None) =>
              threads[t].cbCalls = 1 /\ threads[t].cbArg = prices
        /\ (threads[t].out = "raised" \/ threads[t].args.callback = None) =>
              threads[t].cbCalls = 0

C6_Witness ==
    \E t \in ThreadIds :
        /\ threads[t].pc = "sleeping"
        /\ threads[t].out = "table"
        /\ threads[t].cbCalls = 1
        /\ threads[t].cbArg = ExampleTable
        /\ last_update_time = 2

\* C7: a thread whose callback raised is still alive and asleep at the end of
\* that cycle, the table it stored is still the shared table, and from the sleep
\* it goes back to the test of the stop flag.
C7_CallbackErrorCaught ==
    /\ [](\A t \in ThreadIds :
            threads[t].cbRaised =>
                /\ threads[t].pc = "sleeping"
                /\ prices = threads[t].result)
    /\ [][\A t \in ThreadIds :
            (threads[t].cbRaised /\ threads'[t] # threads[t]) =>
                threads'[t].pc = "check"]_vars

C7_Witness ==
    \E t \in ThreadIds :
        /\ threads[t].cbRaised
        /\ threads[t].pc = "sleeping"
        /\ prices = ExampleTable
        /\ ~stop_thread

\* C8: a stop_price_update that is waiting for the thread can always return,
\* whether or not the thread has exited, and its steps change no live thread.
C8_StopReturns ==
    /\ [](pc[Main] = "joining" => ENABLED JoinReturn(Main))
    /\ [][(pc'[Main] # pc[Main] /\ (pc[Main] \in {"stop_41", "joining"}
                                    \/ pc'[Main] = "stop_41")) =>
            \A t \in ThreadIds : IsAlive(t) => threads'[t] = threads[t]]_vars

\* stop_price_update has returned on the timeout while the thread is in a fetch.
C8_Witness ==
    /\ lastResult = "timeout"
    /\ lastOps[Len(lastOps)] = "stop"
    /\ pc[Main] = "idle"
    /\ stop_thread
    /\ \E t \in ThreadIds : threads[t].pc = "fetching"

\* C9: as long as start_price_update was never called, stop_price_update raises
\* nothing, there is no thread to join, and the table and last_update_time are
\* as constructed; the first start_price_update after it spawns a thread that is
\* alive with the stop flag clear.
C9_StopBeforeStart ==
    /\ (nStarts = 0 /\ pc[Main] \in {"idle", "stop_41", "joining"}) =>
          /\ \A t \in ThreadIds : threads[t] = NoThread
          /\ update_thread = NoRef
          /\ prices = EmptyTable
          /\ last_update_time = 0
          /\ pc[Main] # "joining"
          /\ lastResult \in {None, "nothread"}
    /\ (nStarts = 1 /\ lastOps = <<"stop", "start">> /\ pc[Main] = "idle") =>
          /\ lastResult = "spawned"
          /\ ~stop_thread
          /\ update_thread # NoRef
          /\ IsAlive(update_thread)
          /\ threads[update_thread].args = lastArgs

\* The thread started after a stop on a fresh instance has completed a cycle.
C9_Witness ==
    /\ nStarts = 1
    /\ lastOps = <<"stop", "start">>
    /\ \E t \in ThreadIds : threads[t].pc = "sleeping" /\ threads[t].out = "table"

\* C10: on Binance and OKCoin, _fetch_prices returns a table under every
\* pattern of remote failures; it never raises.
C10_FetchNeverRaises == fetchIn.called => ~fetchOut.raised

\* Every remote call of an OKCoin fetch of all symbols failed: the empty table.
C10_Witness ==
    /\ fetchIn.called
    /\ backend = "okcoin"
    /\ fetchIn.symbols = <<>>
    /\ fetchIn.env.bulkFails /\ fetchIn.env.marketsFail
    /\ fetchIn.env.singleFails = Markets
    /\ fetchOut.table = EmptyTable

\* A requested symbol the venue prices when called for it alone: on OKCoin the
\* call is made with the translated symbol.
Priced(b, env, symbol) ==
    ~TickerRaises(b, env, IF b = "okcoin" THEN convert_symbol(symbol) ELSE symbol)

\* C11: when exactly one symbol of the requested list is invalid and no other
\* remote call fails, the returned table has a price for every other symbol of
\* the list, wherever the invalid one stands.
C11_InvalidSymbolIsolated ==
    (/\ fetchIn.called
     /\ ~fetchIn.env.bulkFails /\ ~fetchIn.env.marketsFail /\ ~fetchIn.env.batchFails
     /\ Cardinality({i \in 1..Len(fetchIn.symbols) :
                        ~Priced(backend, fetchIn.env, fetchIn.symbols[i])}) = 1) =>
        \A i \in 1..Len(fetchIn.symbols) :
            Priced(backend, fetchIn.env, fetchIn.symbols[i]) =>
                fetchIn.symbols[i] \in DOMAIN fetchOut.table

\* C12: every key of a table _fetch_prices returns is a canonical symbol, one
\* without the separator of the native spelling.
C12_KeysCanonical ==
    fetchIn.called => \A k \in DOMAIN fetchOut.table : ~HasSlash(k)

\* C13: the dict self.prices refers to always holds the whole table of the last
\* completed fetch; the dict a fetch is filling is neither the published one nor
\* one a reader holds; no step changes a dict that is visible before and after
\* it; and the dict a store publishes holds the complete result.
C13_SnapshotSwap ==
    /\ [](/\ dicts[prices_ref].live
          /\ prices = dicts[prices_ref].table
          /\ held # NoRef => dicts[held].live
          /\ frame.pc = "filling" => frame.result \notin {prices_ref, held})
    /\ [][\A o \in DictIds :
            (o \in {prices_ref, held} /\ o \in {prices_ref', held'}) =>
                dicts'[o] = dicts[o]]_vars
    /\ [][prices_ref' # prices_ref =>
            dicts'[prices_ref'].table = frame.final]_vars

\* A reader holds the published table of two symbols while the next fetch has
\* filled one key of three into its own dict.
C13_Witness ==
    /\ held = prices_ref
    /\ dicts[held].table = ExampleTable
    /\ frame.pc = "filling"
    /\ Cardinality(DOMAIN dicts[frame.result].table) = 1
    /\ Cardinality(DOMAIN frame.final) = 3

\* Two names that differ at most in the case of their letters.
SameName(a, b) ==
    Len(a) = Len(b) /\ \A i \in 1..Len(a) : LowerChar(a[i]) = LowerChar(b[i])

\* The text contains the part, character for character.
Contains(text, part) ==
    \E i \in 1..(Len(text) - Len(part) + 1) : SubSeq(text, i, i + Len(part) - 1) = part

\* C14: create_exchange_api returns the Binance backend for a name that is
\* "binance" up to case, the OKCoin backend for one that is "okcoin" up to case,
\* and for every other name raises ValueError with a message that contains the
\* name as it was passed, returning no client.
C14_FactoryByName ==
    call.op = "create" =>
        /\ SameName(call.name, <<"b", "i", "n", "a", "n", "c", "e">>) =>
              ~ret.raised /\ backend = "binance"
        /\ SameName(call.name, <<"o", "k", "c", "o", "i", "n">>) =>
              ~ret.raised /\ backend = "okcoin"
        /\ (/\ ~SameName(call.name, <<"b", "i", "n", "a", "n", "c", "e">>)
            /\ ~SameName(call.name, <<"o", "k", "c", "o", "i", "n">>)) =>
              /\ ret.raised
              /\ ret.kind = "ValueError"
              /\ backend = None
              /\ Contains(ret.message, call.name)

\* C15: a key of the explicit symbol map, translated to the native spelling and
\* back, is that key again.
C15_MapRoundTrip ==
    (/\ call.op = "round_trip"
     /\ \E i \in 1..Len(symbol_map_keys) : symbol_map_keys[i] = call.symbol) =>
        ret.value = call.symbol

\* DOGEUSDT went to DOGE/USDT and came back.
C15_Witness ==
    /\ call.op = "round_trip"
    /\ call.symbol = <<"D", "O", "G", "E", "U", "S", "D", "T">>
    /\ call.native = <<"D", "O", "G", "E", "/", "U", "S", "D", "T">>
    /\ ret.value = call.symbol

\* No remote call of the invocation fails.
NoFailure(env) ==
    /\ ~env.bulkFails /\ ~env.marketsFail /\ ~env.batchFails
    /\ env.singleFails = {}

\* C16: on the OKCoin backend, with no remote failure, _fetch_prices of the
\* canonical spellings of every symbol the venue lists returns the same keys as
\* _fetch_prices([]); the venue lists ETH/BTC, whose quote has three characters.
C16_BulkEquivalence ==
    (/\ fetchIn.called
     /\ backend = "okcoin"
     /\ fetchIn.symbols = AllKnownSymbols
     /\ NoFailure(fetchIn.env)) =>
        DOMAIN fetchOut.table = DOMAIN fetch_prices(backend, fetchIn.env, <<>>).table

\* C17: get_all_tickers never raises; when the full-venue call fails, or a
\* returned ticker cannot be processed, it returns the empty table, and
\* otherwise a price for every market the venue lists.
C17_AllTickersSoft ==
    call.op = "get_all_tickers" =>
        /\ ~ret.raised
        /\ (call.env.bulkFails \/ call.env.malformed # {}) => ret.table = EmptyTable
        /\ (~call.env.bulkFails /\ call.env.malformed = {}) =>
              Cardinality(DOMAIN ret.table) = Cardinality(Markets)

\* The last ticker of OKCoin's answer could not be processed: the two prices
\* already collected are not returned.
C17_Witness ==
    /\ call.op = "get_all_tickers"
    /\ backend = "okcoin"
    /\ ~call.env.bulkFails
    /\ call.env.malformed = {ETH_BTC}
    /\ ret.table = EmptyTable

\* The symbol get_ticker_price sends to the venue.
Sent(b, symbol) == IF b = "okcoin" THEN convert_symbol(symbol) ELSE symbol

\* C18: get_ticker_price never raises; it returns None when the remote call
\* raises or its answer cannot be read, and otherwise the last price of the
\* market the call named (65000 for BTCUSDT).
C18_TickerPriceSoft ==
    call.op = "get_ticker_price" =>
        /\ ~ret.raised
        /\ (\/ TickerRaises(backend, call.env, Sent(backend, call.symbol))
            \/ Resolve(backend, Sent(backend, call.symbol)) \cap call.env.malformed # {})
              => ret.value = Absent
        /\ (/\ ~TickerRaises(backend, call.env, Sent(backend, call.symbol))
            /\ Resolve(backend, Sent(backend, call.symbol)) \cap call.env.malformed = {})
              => /\ ~ret.value.absent
                 /\ \E m \in Resolve(backend, Sent(backend, call.symbol)) :
                        ret.value.price = Last(m)
        /\ (/\ call.symbol = BTCUSDT
            /\ BTC_USDT \notin call.env.singleFails \cup call.env.malformed)
              => ret.value = Price(65000)

\* The call for ETH/USDT raised on OKCoin: None.
C18_Witness ==
    /\ call.op = "get_ticker_price"
    /\ backend = "okcoin"
    /\ call.symbol = ETHUSDT
    /\ call.env.singleFails = {ETH_USDT}
    /\ ret.value = Absent

\* The positions of the log at which a call of this kind was issued.
Calls(log, kind) == {i \in 1..Len(log) : log[i][1] = kind}

\* The call of this kind was issued and ended this way.
Ended(log, kind, ok) == \E i \in Calls(log, kind) : log[i][3] = ok

Worklist(b, symbols) ==
    IF symbols = <<>> /\ b = "okcoin" THEN symbol_map_keys ELSE symbols

\* C20: one invocation of _fetch_prices issues at most one full-venue call, one
\* market-metadata call, one batched call and one individual call per element of
\* the list it works through; when the symbols sent for these elements are all
\* different, no individual call is issued twice for the same symbol.
C20_OnePass ==
    fetchIn.called =>
        /\ Cardinality(Calls(fetchOut.log, "bulk")) <= 1
        /\ Cardinality(Calls(fetchOut.log, "markets")) <= 1
        /\ Cardinality(Calls(fetchOut.log, "batch")) <= 1
        /\ Cardinality(Calls(fetchOut.log, "ticker"))
              <= Len(Worklist(backend, fetchIn.symbols))
        /\ (fetchIn.symbols = <<>> /\ ~fetchIn.env.bulkFails) =>
              Len(fetchOut.log) = 1
        /\ (\A i, j \in 1..Len(fetchIn.symbols) :
               Sent(backend, fetchIn.symbols[i]) = Sent(backend, fetchIn.symbols[j])
                   => i = j) =>
              \A i, j \in Calls(fetchOut.log, "ticker") :
                  fetchOut.log[i][2] = fetchOut.log[j][2] => i = j

\* OKCoin's full-venue call and market-metadata call both raised: one of each,
\* then one individual call for each of the 15 keys of the explicit map.
C20_Witness ==
    /\ fetchIn.called
    /\ backend = "okcoin"
    /\ fetchIn.symbols = <<>>
    /\ Cardinality(Calls(fetchOut.log, "bulk")) = 1
    /\ Cardinality(Calls(fetchOut.log, "markets")) = 1
    /\ Cardinality(Calls(fetchOut.log, "ticker")) = 15
    /\ Len(fetchOut.log) = 17

\* C21: a polling thread that is alive while the stop flag is set eventually
\* exits, and when it reaches the loop test with the flag set it exits there
\* instead of starting another cycle.
C21_StopEventuallyExits ==
    /\ \A t \in ThreadIds : (stop_thread /\ IsAlive(t)) ~> ~IsAlive(t)
    /\ [][\A t \in ThreadIds :
            (stop_thread /\ threads[t].pc = "check" /\ threads'[t] # threads[t]) =>
                threads'[t].pc \in {"dead", "free"}]_vars

\* stop_price_update gave up waiting, and the thread has exited since.
C21_Witness ==
    /\ lastResult = "timeout"
    /\ pc[Main] = "idle"
    /\ stop_thread
    /\ update_thread # NoRef
    /\ threads[update_thread].pc = "dead"


\* C22: while a polling thread is alive the stop flag, once set, stays set, also
\* across a start_price_update issued meanwhile; with the flag set no thread
\* enters a fetch; and the table is replaced and the callback called only by
\* the return of a fetch already in flight, once per fetch. So after the flag
\* is set a thread stores and calls the callback at most once more.
C22_AtMostOneMoreCycle ==
    /\ []((lastOps = <<"stop", "start">> /\ lastResult = "noop" /\ pc[Main] = "idle")
              => stop_thread)
    /\ [][\A t \in ThreadIds :
            /\ (stop_thread /\ IsAlive(t) /\ threads'[t].pc # "dead") => stop_thread'
            /\ (stop_thread /\ threads'[t].pc = "fetching") => threads[t].pc = "fetching"
            /\ (threads'[t].pc = "fetching" /\ threads[t].pc # "fetching") =>
                   /\ threads[t].pc = "check"
                   /\ threads'[t].cbCalls = 0
            /\ threads'[t].cbCalls <= 1
            /\ (threads'[t].cbCalls > threads[t].cbCalls) =>
                   threads[t].pc = "fetching" /\ threads'[t].pc = "in_callback"]_vars
    /\ [][(prices' # prices \/ last_update_time' # last_update_time) =>
            \E t \in ThreadIds :
                /\ threads[t].pc = "fetching"
                /\ threads'[t].pc \in {"in_callback", "sleeping"}
                /\ \A u \in ThreadIds \ {t} : threads'[u] = threads[u]]_vars

\* A stop gave up waiting, the start that followed found the thread alive and
\* returned, and the thread has since stored the table of the fetch that was
\* in flight and is in its callback.
C22_Witness ==
    /\ lastOps = <<"stop", "start">>
    /\ lastResult = "noop"
    /\ pc[Main] = "idle"
    /\ stop_thread
    /\ update_thread # NoRef
    /\ threads[update_thread].pc = "in_callback"
    /\ threads[update_thread].cbCalls = 1


\* The keys of the dict literal of lines 144-161.
MapKeys == {symbol_map_items[i][1] : i \in 1..Len(symbol_map_items)}

\* The individual calls of the log are its last n entries, one per key of the
\* map in the order of the dict literal, each sent in the native spelling.
OverMapKeys(log, n) ==
    /\ n \in {0, Len(symbol_map_items)}
    /\ \A j \in 1..n :
          /\ log[Len(log) - n + j][1] = "ticker"
          /\ log[Len(log) - n + j][2] = convert_symbol(symbol_map_items[j][1])

\* C23: an OKCoin fetch of the empty list issues the full-venue call first.
\* When that call succeeds the translated answer is returned as it is, also
\* when it is empty, and no other call is issued.  When it raises, the
\* individual calls issued afterwards are for the keys of the explicit symbol
\* map, one each and in its order, and every key of the returned table is a key
\* of that map.
C23_DiscoveryFallback ==
    (fetchIn.called /\ backend = "okcoin" /\ fetchIn.symbols = <<>>) =>
        /\ ~fetchOut.raised
        /\ Len(fetchOut.log) >= 1
        /\ fetchOut.log[1][1] = "bulk"
        /\ fetchOut.log[1][3] =>
              /\ Len(fetchOut.log) = 1
              /\ fetchOut.table = BulkAnswer(fetchIn.env, TranslatedTickers)
              /\ fetchIn.env.bulkEmpty => fetchOut.table = EmptyTable
        /\ ~fetchOut.log[1][3] =>
              /\ DOMAIN fetchOut.table \subseteq MapKeys
              /\ OverMapKeys(fetchOut.log, Cardinality(Calls(fetchOut.log, "ticker")))

\* The full-venue call raised and so did the market-metadata call: one
\* individual call per key of the map, two of them priced.
C23_Witness ==
    /\ fetchIn.called
    /\ backend = "okcoin"
    /\ fetchIn.symbols = <<>>
    /\ Ended(fetchOut.log, "bulk", FALSE)
    /\ Cardinality(Calls(fetchOut.log, "ticker")) = Len(symbol_map_items)
    /\ DOMAIN fetchOut.table = {BTCUSDT, ETHUSDT}


\* C24: on OKCoin a symbol without '/' that is translated to the native
\* spelling and back is that symbol again, whether or not the map holds it and
\* whatever its length; and translating a symbol twice gives what translating
\* it once gave.
C24_FallbackRoundTrip ==
    /\ (call.op = "round_trip" /\ ~HasSlash(call.symbol)) => ret.value = call.symbol
    /\ call.op = "convert_twice" => ret.value = call.native

\* BTC, shorter than 4 characters and absent from the map, went to /BTC and
\* came back.
C24_Witness ==
    /\ call.op = "round_trip"
    /\ call.symbol = <<"B", "T", "C">>
    /\ call.native = <<"/", "B", "T", "C">>
    /\ ret.value = call.symbol


\* The store holds this text under this name.
Holds(ks, username, text) ==
    ks.entries[username] = IF ks.simple_storage # None THEN Encrypt(text) ELSE Plain(text)

\* C25: set_api_key returns True only when the credentials were verified and
\* the store holds both the key and the secret it was given; when verification
\* fails the store is as it was before the call; and when a write of one of
\* the two entries fails the result is not True.
C25_TrueMeansStored ==
    call.op = "set_api_key" =>
        /\ ret.value = "True" =>
              /\ ~call.env.verifyFails
              /\ Holds(keystore, "api_key", call.api_key)
              /\ Holds(keystore, "api_secret", call.api_secret)
        /\ call.env.verifyFails => keystore.entries = call.before
        /\ (~call.env.initFails /\ ~call.env.verifyFails /\ call.env.writeFails # {})
              => ret.value # "True"

=============================================================================
